---- MODULE Spec2Model ----
(***************************************************************************)
(* Follow-up communication orchestration of docflow-document-management:   *)
(* the CommunicationCoordinator (lib/communicationCoordinator.ts, kept as  *)
(* src/unnamed/part_000 lines 231-804).                                    *)
(*                                                                         *)
(* Numbers.  Every score of the code (urgency, engagement, sentiment,      *)
(* effectiveness, thresholds) is a double; the model keeps them as exact   *)
(* integers in twentieths (0.05 -> 1, 0.1 -> 2, 0.5 -> 10, 1 -> 20), so    *)
(* IEEE rounding residue (0.4 - 0.1 = 0.30000000000000004) is not          *)
(* represented.  Channel scores carry one more factor, RateDen, so that    *)
(* the success rate k/n of a channel history stays an integer.             *)
(* Time is in hours: Date.now() reads the variable now.                    *)
(*                                                                         *)
(* Stores.  The three private maps are constructed empty (lines 395-397).  *)
(* From the empty maps the first initiateFlow of a customer always         *)
(* satisfies the priority-5 rule, so the send path is entered only from    *)
(* store contents that no run from construction produces.  Init therefore  *)
(* draws each customer's stores either as constructed (seeded = FALSE) or  *)
(* from a bounded set of contents (seeded = TRUE), the way a harness that  *)
(* drives the private methods sets them up.                                *)
(***************************************************************************)
EXTENDS Integers, Sequences, FiniteSets, TLC

----------------------------------------------------------------------------
(* Bounds of the model *)

NumCustomers == 2
MaxCalls == 2
MaxClock == 1
MaxSeedHistory == 4
MaxReminders == 5
MaxDueHours == 250
ScoreMargin == 4

Customers == 1..NumCustomers
Calls == 1..MaxCalls

----------------------------------------------------------------------------
(* Generic helpers *)

Last(s) == s[Len(s)]

RECURSIVE Factorial(_)
Factorial(n) == IF n <= 1 THEN 1 ELSE n * Factorial(n - 1)

RECURSIVE SumSeq(_)
SumSeq(s) == IF s = <<>> THEN 0 ELSE Head(s) + SumSeq(Tail(s))

MaxInt(a, b) == IF a >= b THEN a ELSE b
MinInt(a, b) == IF a <= b THEN a ELSE b

(* Array.prototype.slice(-n) *)
SliceLast(s, n) == IF Len(s) <= n THEN s ELSE SubSeq(s, Len(s) - n + 1, Len(s))

(* Array.prototype.sort(cmp) over entries [key, item], with                   *)
(* cmp(a, b) = a.key - b.key: ascending in the key and stable (entries with *)
(* equal keys keep their order).                                            *)
RECURSIVE InsertByKey(_, _)
InsertByKey(sorted, x) ==
    IF sorted = <<>> THEN <<x>>
    ELSE IF x.key < Head(sorted).key
         THEN <<x>> \o sorted
         ELSE <<Head(sorted)>> \o InsertByKey(Tail(sorted), x)

RECURSIVE SortByKey(_)
SortByKey(s) ==
    IF s = <<>> THEN <<>>
    ELSE InsertByKey(SortByKey(SubSeq(s, 1, Len(s) - 1)), Last(s))

----------------------------------------------------------------------------
(* The static flow catalog: flows.get('default') *)

Channels ==
    << [type |-> "email",    priority |-> 1, waitTime |-> 48, fallbackChannel |-> <<>>,
        thresholds |-> [urgency |-> 10, sentiment |-> 6, engagement |-> 8]],
       [type |-> "whatsapp", priority |-> 2, waitTime |-> 24, fallbackChannel |-> <<"sms">>,
        thresholds |-> [urgency |-> 14, sentiment |-> 4, engagement |-> 12]],
       [type |-> "phone",    priority |-> 3, waitTime |-> 12, fallbackChannel |-> <<>>,
        thresholds |-> [urgency |-> 18, sentiment |-> 2, engagement |-> 16]],
       [type |-> "sms",      priority |-> 2, waitTime |-> 24, fallbackChannel |-> <<>>,
        thresholds |-> [urgency |-> 12, sentiment |-> 6, engagement |-> 10]],
       [type |-> "portal",   priority |-> 1, waitTime |-> 72, fallbackChannel |-> <<>>,
        thresholds |-> [urgency |-> 8, sentiment |-> 8, engagement |-> 6]] >>

ChannelTypes == { Channels[i].type : i \in 1..Len(Channels) }

EscalationRules ==
    << [action |-> "escalate_to_manager",     priority |-> 1],
       [action |-> "human_intervention",      priority |-> 2],
       [action |-> "urgent_escalation",       priority |-> 3],
       [action |-> "switch_channel",          priority |-> 4],
       [action |-> "try_alternative_channel", priority |-> 5] >>

AutoAdjustmentEnabled == TRUE

(* The keys of the flows map, and the flow-type names a caller passes. *)
FlowCatalog == {"default"}
FlowTypes == {"default", "express"}

(* A lookup that falls back to the built-in flow for a name it lacks *)
LookupFlow_DefaultsToBuiltIn(flowType) ==
    IF flowType \in FlowCatalog THEN <<flowType>> ELSE <<"default">>

(* this.flows.get(flowType): the flow, or undefined *)
LookupFlow(flowType) ==
    IF flowType \in FlowCatalog THEN <<flowType>> ELSE <<>>

(* 48 * 60 * 60 * 1000 ms, in hours *)
UrgentWindow == 48

----------------------------------------------------------------------------
(* Inputs *)

(* CustomerDocument: due_date is a string; an empty one is falsy. *)
Documents ==
    { [hasDueDate |-> FALSE, due_date |-> 0],
      [hasDueDate |-> TRUE,  due_date |-> 48] }

(* What sendMessage reports: success = Math.random() > 0.2, time in [0,24), *)
(* sentiment in [-1,1).                                                     *)
Sentiments == {-20, 6}
ResponseTimes == {12}
GatewayResponses ==
    [success : BOOLEAN, time : ResponseTimes, sentiment : Sentiments]

(* What a call of the message-composition collaborators does. *)
ComposeOutcomes == {"message", "throws"}

----------------------------------------------------------------------------
(* Scores are compared in twentieths times RateDen; every channel history   *)
(* of the model is at most MaxHistoryLen long, so RateDen / n is exact.     *)

MaxHistoryLen == MaxSeedHistory + MaxCalls
RateDen == Factorial(MaxHistoryLen)

(* An optional value (undefined or a value) is a sequence of length 0 or 1. *)
None == <<>>
Some(x) == <<x>>

----------------------------------------------------------------------------
(* Scoring primitives and the context snapshot *)

(* An urgency score that is 0.9 for a document with a due date *)
calculateUrgencyScore_FromDueDate(document) ==
    IF document.hasDueDate THEN 18 ELSE 10

(* calculateUrgencyScore: the constant 0.5 *)
calculateUrgencyScore(document) == 10

(* An engagement score with no cold-start default *)
calculateEngagementScore_NoDefault(history) ==
    IF Len(history) = 0 THEN 0
    ELSE LET recentHistory == SliceLast(history, 5)
         IN  SumSeq([i \in 1..Len(recentHistory) |-> recentHistory[i].engagementScore])
                 \div Len(recentHistory)

(* calculateEngagementScore: 0.5 on an empty history, else the mean of the  *)
(* engagementScore fields of the last five records.                         *)
calculateEngagementScore(history) ==
    IF Len(history) = 0 THEN 10
    ELSE LET recentHistory == SliceLast(history, 5)
         IN  SumSeq([i \in 1..Len(recentHistory) |-> recentHistory[i].engagementScore])
                 \div Len(recentHistory)

(* getChannelHistory: history.filter(m => m.channel === channelType) *)
getChannelHistory(history, channelType) ==
    SelectSeq(history, LAMBDA m : m.channel = channelType)

(* The EscalationContext object returned by buildEscalationContext.  It has *)
(* no sentiment field.                                                      *)
EscalationContext(customer, document, attempts, last, urgency, engagement, eff) ==
    [customer |-> customer, document |-> document, attempts |-> attempts,
     lastResponse |-> last, urgencyScore |-> urgency,
     engagementScore |-> engagement, channelEffectiveness |-> eff]

(* buildEscalationContext(customer, document, history), with the map that  *)
(* getChannelEffectiveness copies for the customer.                         *)
buildEscalationContext(customer, document, history, effectiveness) ==
    EscalationContext(customer, document,
                      Len(history),
                      IF Len(history) > 0 THEN Some(Last(history)) ELSE None,
                      calculateUrgencyScore(document),
                      calculateEngagementScore(history),
                      effectiveness)

----------------------------------------------------------------------------
(* Channel selection *)

(* calculateChannelScore(channel, context), reading the customer's stored   *)
(* history for the success rate.                                            *)
calculateChannelScore(channel, context, history) ==
    LET channelHistory == getChannelHistory(history, channel.type)
        successes == Len(SelectSeq(channelHistory, LAMBDA r : r.wasSuccessful))
    IN  (IF context.urgencyScore >= channel.thresholds.urgency THEN 6 * RateDen ELSE 0)
      + (IF /\ context.lastResponse # None
            /\ context.lastResponse[1].sentiment >= channel.thresholds.sentiment
         THEN 4 * RateDen ELSE 0)
      + (IF context.engagementScore >= channel.thresholds.engagement
         THEN 4 * RateDen ELSE 0)
      + (IF Len(channelHistory) > 0
         THEN (6 * successes * RateDen) \div Len(channelHistory) ELSE 0)

(* context.channelEffectiveness[channel.type] || 0 *)
effectivenessBonus(context, channelType) ==
    IF channelType \in DOMAIN context.channelEffectiveness
    THEN context.channelEffectiveness[channelType] * RateDen
    ELSE 0

(* baseScore + effectivenessBonus of one channel *)
ChannelTotalScore(channel, context, history) ==
    calculateChannelScore(channel, context, history)
        + effectivenessBonus(context, channel.type)

(* The orders in which the scoring promises of flow.channels.map may       *)
(* settle: settled[k] is the index of the k-th promise to settle.  On the   *)
(* event loop they settle in catalog order; the model also lets them settle *)
(* the other way round.                                                     *)
SettleOrders ==
    { [k \in 1..Len(Channels) |-> k],
      [k \in 1..Len(Channels) |-> Len(Channels) + 1 - k] }

(* An aggregation that yields the values in the order they settled *)
PromiseAll_InSettleOrder(values, settled) ==
    [k \in 1..Len(values) |-> values[settled[k]]]

(* Promise.all: the values in the order of the input promises, whatever    *)
(* the order they settled in.                                               *)
PromiseAll(values, settled) == values

(* The ranking with the comparator the other way round (a.score - b.score) *)
selectOptimalChannel_Ascending(context, history, settled) ==
    LET scores == PromiseAll(
                     [i \in 1..Len(Channels) |->
                        [key |-> ChannelTotalScore(Channels[i], context, history),
                         item |-> Channels[i]]],
                     settled)
    IN  SortByKey(scores)[1].item

(* (await Promise.all(flow.channels.map(...)))                               *)
(*     .sort((a, b) => b.score - a.score)[0].channel                        *)
selectOptimalChannel(context, history, settled) ==
    LET scores == PromiseAll(
                     [i \in 1..Len(Channels) |->
                        [key |-> 0 - ChannelTotalScore(Channels[i], context, history),
                         item |-> Channels[i]]],
                     settled)
    IN  SortByKey(scores)[1].item

----------------------------------------------------------------------------
(* Escalation rules *)

(* The conditions with a maximum that no empty set of values is below *)
RuleCondition_EmptyHasNoMaximum(i, ctx, t) ==
    CASE i = 1 -> ctx.attempts >= 2 /\ ctx.urgencyScore > 16
      [] i = 2 -> /\ "sentiment" \in DOMAIN ctx
                  /\ ctx.sentiment < -10
                  /\ ctx.attempts > 1
      [] i = 3 -> /\ ctx.document.hasDueDate
                  /\ ctx.document.due_date - t < UrgentWindow
      [] i = 4 -> ctx.engagementScore < 6 /\ ctx.attempts > 3
      [] i = 5 -> /\ DOMAIN ctx.channelEffectiveness # {}
                  /\ \A ch \in DOMAIN ctx.channelEffectiveness :
                         ctx.channelEffectiveness[ch] < 8

(* rule.condition(ctx) of the i-th rule of the catalog, Date.now() = t.     *)
(* Math.max of no arguments is -Infinity, so the last rule is true of an    *)
(* empty effectiveness object.                                              *)
RuleCondition(i, ctx, t) ==
    CASE i = 1 -> ctx.attempts >= 2 /\ ctx.urgencyScore > 16
      [] i = 2 -> /\ "sentiment" \in DOMAIN ctx
                  /\ ctx.sentiment < -10
                  /\ ctx.attempts > 1
      [] i = 3 -> /\ ctx.document.hasDueDate
                  /\ ctx.document.due_date - t < UrgentWindow
      [] i = 4 -> ctx.engagementScore < 6 /\ ctx.attempts > 3
      [] i = 5 -> \A ch \in DOMAIN ctx.channelEffectiveness :
                      ctx.channelEffectiveness[ch] < 8

(* The same filter with the comparator reversed (b.priority - a.priority) *)
applicableRules_Descending(ctx, t) ==
    LET idx == SelectSeq([i \in 1..Len(EscalationRules) |-> i],
                         LAMBDA i : RuleCondition(i, ctx, t))
    IN  SortByKey([k \in 1..Len(idx) |->
                     [key |-> 0 - EscalationRules[idx[k]].priority,
                      item |-> EscalationRules[idx[k]]]])

(* flow.escalationRules.filter(rule => rule.condition(context))              *)
(*                     .sort((a, b) => a.priority - b.priority)             *)
applicableRules(ctx, t) ==
    LET idx == SelectSeq([i \in 1..Len(EscalationRules) |-> i],
                         LAMBDA i : RuleCondition(i, ctx, t))
    IN  SortByKey([k \in 1..Len(idx) |->
                     [key |-> EscalationRules[idx[k]].priority,
                      item |-> EscalationRules[idx[k]]]])

(* The handler the switch of handleEscalation dispatches to, by its status. *)
EscalationStatus(action) ==
    CASE action = "escalate_to_manager" -> "escalated_to_manager"
      [] action = "human_intervention"  -> "human_intervention_required"
      [] action = "urgent_escalation"   -> "urgent_escalation"
      [] action = "switch_channel"      -> "channel_switch_required"
      [] OTHER                          -> "default_escalation"

----------------------------------------------------------------------------
(* Effectiveness, next channel, wait time *)

(* The update without Math.max / Math.min *)
NewEffectiveness_Unclamped(customerEffectiveness, channelType, adjustment) ==
    LET currentEffectiveness ==
            IF /\ channelType \in DOMAIN customerEffectiveness
               /\ customerEffectiveness[channelType] # 0
            THEN customerEffectiveness[channelType]
            ELSE 10
    IN  currentEffectiveness + adjustment

(* The value updateChannelEffectiveness stores:                              *)
(*   current = customerEffectiveness.get(channelType) || 0.5                *)
(*   Math.max(0, Math.min(1, current + adjustment))                         *)
NewEffectiveness(customerEffectiveness, channelType, adjustment) ==
    LET currentEffectiveness ==
            IF /\ channelType \in DOMAIN customerEffectiveness
               /\ customerEffectiveness[channelType] # 0
            THEN customerEffectiveness[channelType]
            ELSE 10
    IN  MaxInt(0, MinInt(20, currentEffectiveness + adjustment))

(* Map.set(key, value) on a map held as a function *)
MapSet(m, key, value) ==
    [x \in DOMAIN m \cup {key} |-> IF x = key THEN value ELSE m[x]]

(* flow.channels.findIndex(c => c.type === type), 1-based; 0 when absent    *)
FindIndex(type) ==
    IF \E i \in 1..Len(Channels) : Channels[i].type = type
    THEN CHOOSE i \in 1..Len(Channels) :
             /\ Channels[i].type = type
             /\ \A j \in 1..(i - 1) : Channels[j].type # type
    ELSE 0

(* The catalog-order successor, whatever the fallback *)
determineNextChannel_NoFallback(currentChannel) ==
    LET nextChannelIndex == FindIndex(currentChannel.type) + 1
    IN  IF nextChannelIndex \in 1..Len(Channels)
        THEN Channels[nextChannelIndex]
        ELSE Channels[1]

determineNextChannel(currentChannel) ==
    IF /\ currentChannel.fallbackChannel # None
       /\ FindIndex(currentChannel.fallbackChannel[1]) # 0
    THEN Channels[FindIndex(currentChannel.fallbackChannel[1])]
    ELSE LET nextChannelIndex == FindIndex(currentChannel.type) + 1
         IN  IF nextChannelIndex \in 1..Len(Channels)
             THEN Channels[nextChannelIndex]
             ELSE Channels[1]

(* A wait time without the lower limit of a quarter of the base *)
calculateWaitTime_NoFloor(channel, context) ==
    LET baseWaitTime == channel.waitTime
        urgencyFactor == MaxInt(0, 20 - context.urgencyScore)
        engagementFactor == MaxInt(10, context.engagementScore)
    IN  baseWaitTime * urgencyFactor * engagementFactor

(* calculateWaitTime, in hours / 400 (the two factors are in twentieths) *)
calculateWaitTime(channel, context) ==
    LET baseWaitTime == channel.waitTime
        urgencyFactor == MaxInt(0, 20 - context.urgencyScore)
        engagementFactor == MaxInt(10, context.engagementScore)
    IN  MaxInt(baseWaitTime * urgencyFactor * engagementFactor, baseWaitTime * 100)

----------------------------------------------------------------------------
(* State *)

VARIABLES
    responseHistory,       \* Map<customerId, ResponseMetrics[]> (absent = empty)
    channelEffectiveness,  \* Map<customerId, Map<channel, number>>
    escalationHistory,     \* Map<customerId, Set<escalationId>>
    now,                   \* Date.now(), in hours
    inv,                   \* the initiateFlow invocations: position and locals
    result,                \* what each invocation's promise settled with
    gatewayCalls,          \* per customer, the calls of sendMessage so far
    seeded,                \* per customer, whether its stores started non-empty
    urgencyCall,           \* a call of SmartMessagingEngine.calculateUrgencyScore
    waitCall,              \* a call of calculateWaitTime on its own
    notifications,         \* NotificationSystem: Map<id, Notification>
    callStack,             \* the createNotification calls that have not returned
    createResult,          \* what the outermost createNotification settled with
    notifyClock,           \* new Date() of the notification system, in minutes
    workflowRules,         \* WorkflowAutomation.rules: WorkflowRule[]
    executions,            \* WorkflowAutomation: Map<id, WorkflowExecution>
    returned,              \* the executions processDocument has returned
    workflowClock          \* new Date() of the workflow automation

vars == <<responseHistory, channelEffectiveness, escalationHistory, now, inv,
          result, gatewayCalls, seeded, urgencyCall, waitCall,
          notifications, callStack, createResult, notifyClock,
          workflowRules, executions, returned, workflowClock>>

(* The variables of the notification system *)
notificationVars == <<notifications, callStack, createResult, notifyClock>>

(* The variables of the workflow automation *)
workflowVars == <<workflowRules, executions, returned, workflowClock>>

(* The variables of what is run on its own, apart from the coordinator *)
libraryVars == <<urgencyCall, waitCall, notificationVars, workflowVars>>

(* The variables of the coordinator's runs *)
coordinatorVars ==
    <<responseHistory, channelEffectiveness, escalationHistory, now, inv, result,
      gatewayCalls, seeded>>

EmptyMap == <<>>

(* A record that asks for a follow-up whatever the gateway reported *)
ResponseMetrics_FollowUpAlways(channelType, response, engagementScore) ==
    [channel |-> channelType,
     responseTime |-> response.time,
     sentiment |-> response.sentiment,
     wasSuccessful |-> response.success,
     engagementScore |-> engagementScore,
     followUpRequired |-> TRUE]

(* The ResponseMetrics record executeChannelStrategy hands to trackResponse *)
ResponseMetrics(channelType, response, engagementScore) ==
    [channel |-> channelType,
     responseTime |-> response.time,
     sentiment |-> response.sentiment,
     wasSuccessful |-> response.success,
     engagementScore |-> engagementScore,
     followUpRequired |-> ~response.success]

(* Store contents a customer may start with: as constructed, or one of a    *)
(* few contents from which the send path is entered.                        *)
FreshStore == [history |-> <<>>, effectiveness |-> EmptyMap]

SeedRecord(channelType, success, sentiment, engagementScore) ==
    ResponseMetrics(channelType,
                    [success |-> success, time |-> 12, sentiment |-> sentiment],
                    engagementScore)

SeedStores ==
    { [history |-> <<>>, effectiveness |-> (t :> 20)] : t \in ChannelTypes }
    \cup
    { [history |-> <<>>, effectiveness |-> ("email" :> 1) @@ ("phone" :> 8)],
      [history |-> <<>>, effectiveness |-> ("email" :> 8) @@ ("portal" :> 8)],
      [history |-> <<SeedRecord("email", TRUE, 19, 10)>>,
       effectiveness |-> ("email" :> 12)],
      [history |-> [i \in 1..MaxSeedHistory |-> SeedRecord("phone", FALSE, -20, 4)],
       effectiveness |-> ("phone" :> 8)] }

IdleCall ==
    [pc |-> "idle", customer |-> 0, flowType |-> None, context |-> None,
     channel |-> None, activeEscalations |-> {}, fired |-> None,
     escalationId |-> None, sent |-> FALSE, thrown |-> None, response |-> None,
     nextChannel |-> None, followUp |-> None, document |-> None,
     history |-> None]

Pending == [pending |-> TRUE]

(* The coordinator never gets as far as the message engine (generateMessage *)
(* stops at documentProcessor.analyze), so in its runs no call of the       *)
(* engine's urgency score is under way.                                     *)
NoUrgencyCall == [document |-> None, at |-> 0, score |-> None]

(* In the coordinator's runs calculateWaitTime is part of SendMessage. *)
NoWaitCall == [channel |-> None, context |-> None, time |-> None]

(* The notification system as constructed (lines 37-38), no call made *)
NotificationIdle ==
    /\ notifications = <<>>
    /\ callStack = <<>>
    /\ createResult = "idle"
    /\ notifyClock = 0

(* The rules field as constructed (lines 37-84).  A condition is kept by   *)
(* name: "urgent" is doc.ai_urgency_score > 80, "overdue" is               *)
(* doc.status === 'overdue'.                                               *)
BuiltInRules ==
    << [id |-> "urgent-document-reminder", condition |-> "urgent",
        actions |-> <<"followup", "notification">>,
        priority |-> 1, isActive |-> TRUE],
       [id |-> "overdue-document-escalation", condition |-> "overdue",
        actions |-> <<"escalation", "tag">>,
        priority |-> 2, isActive |-> TRUE] >>

(* The workflow automation as constructed (lines 37-86), no call made *)
WorkflowIdle ==
    /\ workflowRules = BuiltInRules
    /\ executions = <<>>
    /\ returned = <<>>
    /\ workflowClock = 0

Init ==
    /\ \E stores \in [Customers -> {FreshStore} \cup SeedStores] :
          /\ responseHistory = [c \in Customers |-> stores[c].history]
          /\ channelEffectiveness = [c \in Customers |-> stores[c].effectiveness]
          /\ seeded = [c \in Customers |-> stores[c] # FreshStore]
    /\ escalationHistory = [c \in Customers |-> {}]
    /\ now = 0
    /\ inv = [p \in Calls |-> IdleCall]
    /\ result = [p \in Calls |-> Pending]
    /\ gatewayCalls = [c \in Customers |-> 0]
    /\ urgencyCall = NoUrgencyCall
    /\ waitCall = NoWaitCall
    /\ NotificationIdle
    /\ WorkflowIdle

Settled(p) == inv[p].pc \in {"fulfilled", "rejected"}

----------------------------------------------------------------------------
(* Operations.                                                              *)
(*                                                                          *)
(* The coordinator runs on the JavaScript event loop.  initiateFlow runs    *)
(* synchronously up to its first await (inside buildEscalationContext):     *)
(* the flow lookup, the read of the customer's history and of its length.   *)
(* From there to the timer of sendMessage (line 794) every await is on an   *)
(* async method that waits for nothing, here and in the collaborators in    *)
(* src/, so the invocation goes on in microtasks; other calls of            *)
(* initiateFlow may start in between, but a timer callback runs only when   *)
(* no microtask is pending.  After the timer the invocation again runs in   *)
(* microtasks to its return.  So an invocation takes three steps:           *)
(* InitiateFlow (the synchronous head), ExecuteChannelStrategy (up to the   *)
(* timer or an earlier return) and SendMessage (from the timer on).         *)

(* An event loop that runs a timer callback whatever is pending *)
MicrotasksDrained_Preemptive == TRUE

(* A timer callback runs only when the microtask queue is empty: no         *)
(* invocation is between its synchronous head and its wait or return.       *)
MicrotasksDrained == \A q \in DOMAIN inv : inv[q].pc # "building"

(* A handler that computes the escalation id and does not keep it *)
RecordEscalation_NotKept(customerEscalations, escalationId) == customerEscalations

(* A handler that files a second id beside the escalation id *)
RecordEscalation_WithAudit(customerEscalations, escalationId) ==
    customerEscalations \cup {escalationId, <<"audit", escalationId[2]>>}

(* customerEscalations.add(escalationId) *)
RecordEscalation(customerEscalations, escalationId) ==
    customerEscalations \cup {escalationId}

(* An open-escalation check that lets a single open escalation pass *)
HasActiveEscalations_MoreThanOne(activeEscalations) ==
    Cardinality(activeEscalations) > 1

(* An open-escalation check that never finds one *)
HasActiveEscalations_Never(activeEscalations) == FALSE

(* activeEscalations.size > 0 *)
HasActiveEscalations(activeEscalations) == Cardinality(activeEscalations) > 0

(* The call of initiateFlow up to its first await: the flow lookup and the  *)
(* reads of getCustomerHistory and history.length.                          *)
InitiateFlow(p, c, d, flowType) ==
    /\ inv[p].pc = "idle"
    /\ \A q \in Calls : q < p => inv[q].pc # "idle"
    /\ LET customerHistory == responseHistory[c]
           started == [IdleCall EXCEPT !.customer = c, !.flowType = Some(flowType),
                                       !.document = Some(d),
                                       !.history = Some(customerHistory)]
       IN  IF LookupFlow(flowType) = None
           THEN \* throw new Error(`Flow type ${flowType} not found`)
                /\ inv' = [inv EXCEPT ![p] = [started EXCEPT !.pc = "rejected"]]
                /\ result' = [result EXCEPT ![p] = [error |-> "flow_not_found"]]
           ELSE /\ inv' = [inv EXCEPT ![p] = [started EXCEPT !.pc = "building"]]
                /\ UNCHANGED result
    /\ UNCHANGED <<responseHistory, channelEffectiveness, escalationHistory, now,
                   gatewayCalls, seeded, libraryVars>>

(* The rest of buildEscalationContext, selectOptimalChannel, and of         *)
(* executeChannelStrategy the open-escalation check                         *)
(* (handleActiveEscalations), the escalation rules (handleEscalation), or   *)
(* generateMessage and the call of sendMessage.  generateMessage calls the  *)
(* composition collaborators (documentProcessor.analyze,                    *)
(* smartMessaging.generateSmartMessage), which hand back a message or       *)
(* throw; nothing catches the throw, so it rejects initiateFlow.            *)
ExecuteChannelStrategy(p) ==
    /\ inv[p].pc = "building"
    /\ \E settled \in SettleOrders :
       LET c == inv[p].customer
           context == buildEscalationContext(c, inv[p].document[1],
                                             inv[p].history[1],
                                             channelEffectiveness[c])
           initialChannel == selectOptimalChannel(context, responseHistory[c],
                                                  settled)
           activeEscalations == escalationHistory[c]
           rules == applicableRules(context, now)
           started == inv[p]
       IN  IF HasActiveEscalations(activeEscalations)
           THEN \* handleActiveEscalations
                /\ inv' = [inv EXCEPT ![p] =
                             [started EXCEPT !.pc = "fulfilled",
                                             !.context = Some(context),
                                             !.channel = Some(initialChannel),
                                             !.activeEscalations = activeEscalations]]
                /\ result' = [result EXCEPT ![p] =
                                [status |-> "escalated",
                                 activeEscalations |-> activeEscalations]]
                /\ UNCHANGED <<escalationHistory, gatewayCalls>>
           ELSE IF Len(rules) > 0
           THEN \* handleEscalation(applicableRules[0], ...)
                LET rule == rules[1].item
                    escalationId == <<rule.action, now>>
                IN  /\ escalationHistory' =
                           [escalationHistory EXCEPT
                                ![c] = RecordEscalation(@, escalationId)]
                    /\ inv' = [inv EXCEPT ![p] =
                                 [started EXCEPT !.pc = "fulfilled",
                                                 !.context = Some(context),
                                                 !.channel = Some(initialChannel),
                                                 !.fired = Some(rule.action),
                                                 !.escalationId = Some(escalationId)]]
                    /\ result' = [result EXCEPT ![p] =
                                    [status |-> EscalationStatus(rule.action),
                                     context |-> context]]
                    /\ UNCHANGED gatewayCalls
           ELSE \* generateMessage, sendMessage
                /\ \E outcome \in ComposeOutcomes :
                      IF outcome = "throws"
                      THEN /\ inv' = [inv EXCEPT ![p] =
                                        [started EXCEPT
                                            !.pc = "rejected",
                                            !.context = Some(context),
                                            !.channel = Some(initialChannel),
                                            !.thrown = Some("compose_failed")]]
                           /\ result' = [result EXCEPT ![p] =
                                            [error |-> "compose_failed"]]
                           /\ UNCHANGED gatewayCalls
                      ELSE /\ inv' = [inv EXCEPT ![p] =
                                        [started EXCEPT
                                            !.pc = "sending",
                                            !.context = Some(context),
                                            !.channel = Some(initialChannel),
                                            !.sent = TRUE]]
                           /\ gatewayCalls' = [gatewayCalls EXCEPT ![c] = @ + 1]
                           /\ UNCHANGED result
                /\ UNCHANGED escalationHistory
    /\ UNCHANGED <<responseHistory, channelEffectiveness, now, seeded, libraryVars>>

(* A store that keeps one array for all customers *)
trackResponse_SharedArray(histories, customerId, metrics) ==
    [c \in DOMAIN histories |-> Append(histories[c], metrics)]

(* A store that puts the new record in front (unshift for push) *)
trackResponse_Unshift(histories, customerId, metrics) ==
    [histories EXCEPT ![customerId] = <<metrics>> \o @]

(* trackResponse(customerId, metrics) *)
trackResponse(histories, customerId, metrics) ==
    [histories EXCEPT ![customerId] = Append(@, metrics)]

(* An update that starts from the default and not from the stored value *)
updateChannelEffectiveness_Forgetful(effectiveness, customerId, channelType, adjustment) ==
    [effectiveness EXCEPT ![customerId] =
         MapSet(@, channelType, NewEffectiveness(EmptyMap, channelType, adjustment))]

(* updateChannelEffectiveness(customerId, channelType, adjustment) *)
updateChannelEffectiveness(effectiveness, customerId, channelType, adjustment) ==
    [effectiveness EXCEPT ![customerId] =
         MapSet(@, channelType, NewEffectiveness(@, channelType, adjustment))]

(* The value executeChannelStrategy returns after an attempt *)
ReturnedAfterAttempt(response, followUp) == response

(* The timer of sendMessage fires and the gateway's report comes back:    *)
(* trackResponse, updateChannelEffectiveness, after a failure               *)
(* scheduleFollowUp (determineNextChannel, calculateWaitTime and a second   *)
(* generateMessage, which again hands back a message or throws), then       *)
(* adjustFlow (a no-op) and return response.                                *)
SendMessage(p) ==
    /\ inv[p].pc = "sending"
    /\ MicrotasksDrained
    /\ \E response \in GatewayResponses, outcome \in ComposeOutcomes :
          LET c == inv[p].customer
              channel == inv[p].channel[1]
              context == inv[p].context[1]
              nextChannel == determineNextChannel(channel)
              waitTime == calculateWaitTime(channel, context)
              followUp == [scheduledTime |-> now * 400 + waitTime,
                           channel |-> nextChannel,
                           message |-> outcome]
          IN  /\ responseHistory' =
                     trackResponse(responseHistory, c,
                         ResponseMetrics(channel.type, response,
                                         context.engagementScore))
              /\ channelEffectiveness' =
                     updateChannelEffectiveness(channelEffectiveness, c, channel.type,
                                                IF response.success THEN 2 ELSE -2)
              /\ IF response.success
                 THEN /\ outcome = "message"
                      /\ inv' = [inv EXCEPT ![p].pc = "fulfilled",
                                            ![p].response = Some(response)]
                      /\ result' = [result EXCEPT ![p] =
                                      ReturnedAfterAttempt(response, None)]
                 ELSE IF outcome = "throws"
                 THEN /\ inv' = [inv EXCEPT ![p].pc = "rejected",
                                            ![p].response = Some(response),
                                            ![p].nextChannel = Some(nextChannel),
                                            ![p].thrown = Some("compose_failed")]
                      /\ result' = [result EXCEPT ![p] = [error |-> "compose_failed"]]
                 ELSE /\ inv' = [inv EXCEPT ![p].pc = "fulfilled",
                                            ![p].response = Some(response),
                                            ![p].nextChannel = Some(nextChannel),
                                            ![p].followUp = Some(followUp)]
                      /\ result' = [result EXCEPT ![p] =
                                      ReturnedAfterAttempt(response, Some(followUp))]
    /\ UNCHANGED <<escalationHistory, now, gatewayCalls, seeded, libraryVars>>

(* Time passes *)
Tick ==
    /\ now < MaxClock
    /\ now' = now + 1
    /\ UNCHANGED <<responseHistory, channelEffectiveness, escalationHistory, inv,
                   result, gatewayCalls, seeded, libraryVars>>

Next ==
    \/ \E p \in Calls, c \in Customers, d \in Documents, flowType \in FlowTypes :
           InitiateFlow(p, c, d, flowType)
    \/ \E p \in Calls : ExecuteChannelStrategy(p)
    \/ \E p \in Calls : SendMessage(p)
    \/ Tick

Spec == Init /\ [][Next]_vars

----------------------------------------------------------------------------
(* SmartMessagingEngine.calculateUrgencyScore (lib/smartMessaging.ts), the  *)
(* bucketed urgency score on the scale 0..100.  Times are in hours; a       *)
(* due_date string that new Date() cannot parse gives NaN, here None.       *)

(* Math.trunc for Math.floor *)
FloorDiv_TowardsZero(n, d) == IF n >= 0 THEN n \div d ELSE 0 - ((0 - n) \div d)

(* Math.floor(n / d), d > 0 *)
FloorDiv(n, d) == n \div d

SmartDocumentTypes == {"Legal", "Financial", "Tax"}

(* document.reminder_count: absent, or a count *)
ReminderCounts == {None} \cup { Some(n) : n \in 0..MaxReminders }

(* document.due_date as new Date() reads it: NaN, or a time *)
DueDates == {None} \cup { Some(h) : h \in (0 - MaxDueHours)..MaxDueHours }

SmartDocuments ==
    [due_date : DueDates, type : SmartDocumentTypes, reminder_count : ReminderCounts]

(* calculateUrgencyScore(document) with new Date() = t.  Every comparison   *)
(* with NaN is false, so an unparseable due date falls to the last bucket.  *)
smartCalculateUrgencyScore(document, t) ==
    LET isNaN == document.due_date = None
        daysUntilDue == IF isNaN THEN 0 ELSE FloorDiv(document.due_date[1] - t, 24)
        proximity == IF isNaN THEN 20
                     ELSE IF daysUntilDue < 0 THEN 100
                     ELSE IF daysUntilDue < 2 THEN 80
                     ELSE IF daysUntilDue < 5 THEN 60
                     ELSE IF daysUntilDue < 10 THEN 40
                     ELSE 20
        importance == (IF document.type = "Legal" THEN 20 ELSE 0)
                      + (IF document.type = "Financial" THEN 15 ELSE 0)
        reminders == IF /\ document.reminder_count # None
                        /\ document.reminder_count[1] # 0
                     THEN MinInt(20, document.reminder_count[1] * 5)
                     ELSE 0
    IN  MinInt(100, proximity + importance + reminders)

(* A document and a time are handed to the engine. *)
UrgencyInit ==
    /\ responseHistory = [c \in Customers |-> <<>>]
    /\ channelEffectiveness = [c \in Customers |-> EmptyMap]
    /\ seeded = [c \in Customers |-> FALSE]
    /\ escalationHistory = [c \in Customers |-> {}]
    /\ now \in 0..MaxClock
    /\ inv = [p \in Calls |-> IdleCall]
    /\ result = [p \in Calls |-> Pending]
    /\ gatewayCalls = [c \in Customers |-> 0]
    /\ waitCall = NoWaitCall
    /\ NotificationIdle
    /\ WorkflowIdle
    /\ \E document \in SmartDocuments :
          urgencyCall = [document |-> Some(document), at |-> now, score |-> None]

(* calculateUrgencyScore returns *)
CalculateUrgency ==
    /\ urgencyCall.document # None
    /\ urgencyCall.score = None
    /\ urgencyCall' =
          [urgencyCall EXCEPT
              !.score = Some(smartCalculateUrgencyScore(urgencyCall.document[1],
                                                        urgencyCall.at))]
    /\ UNCHANGED <<coordinatorVars, waitCall, notificationVars, workflowVars>>

UrgencyNext == CalculateUrgency

UrgencySpec == UrgencyInit /\ [][UrgencyNext]_vars

----------------------------------------------------------------------------
(* calculateWaitTime on its own, for urgency and engagement scores inside   *)
(* and outside [0,1] (in twentieths).                                       *)

(* The coordinator's stores and invocations as constructed, at time 0 *)
CoordinatorIdle ==
    /\ responseHistory = [c \in Customers |-> <<>>]
    /\ channelEffectiveness = [c \in Customers |-> EmptyMap]
    /\ seeded = [c \in Customers |-> FALSE]
    /\ escalationHistory = [c \in Customers |-> {}]
    /\ now = 0
    /\ inv = [p \in Calls |-> IdleCall]
    /\ result = [p \in Calls |-> Pending]
    /\ gatewayCalls = [c \in Customers |-> 0]

WaitScores == (0 - ScoreMargin)..(20 + ScoreMargin)

WaitContexts == [urgencyScore : WaitScores, engagementScore : WaitScores]

WaitInit ==
    /\ CoordinatorIdle
    /\ urgencyCall = NoUrgencyCall
    /\ NotificationIdle
    /\ WorkflowIdle
    /\ \E i \in 1..Len(Channels), context \in WaitContexts :
          waitCall = [channel |-> Some(Channels[i]), context |-> Some(context),
                      time |-> None]

(* calculateWaitTime returns *)
CalculateWait ==
    /\ waitCall.channel # None
    /\ waitCall.time = None
    /\ waitCall' = [waitCall EXCEPT
                       !.time = Some(calculateWaitTime(waitCall.channel[1],
                                                       waitCall.context[1]))]
    /\ UNCHANGED <<coordinatorVars, urgencyCall, notificationVars, workflowVars>>

WaitNext == CalculateWait

WaitSpec == WaitInit /\ [][WaitNext]_vars

(***************************************************************************)
(* NotificationSystem (src/lib/notificationSystem.ts).                     *)
(*                                                                         *)
(* Time is in minutes: new Date() reads the variable notifyClock.  A       *)
(* createNotification call and the calls nested in it run without a timer  *)
(* or I/O between them, so the clock does not advance while a call is on   *)
(* the call stack.  The store holds at most MaxNotifications               *)
(* notifications: a nested call that would store one more stands for the   *)
(* exhaustion of the call stack or of the heap.                            *)
(***************************************************************************)

MaxNotifications == 6
MaxNotifyClock == 5

(* 5 * 60 * 1000 ms, in minutes *)
SimilarThreshold == 5

(* 7 * 24 * 60 * 60 * 1000 ms, in minutes *)
CleanupThreshold == 10080

(* The arguments of a createNotification call made from outside *)
NotificationInputs ==
    { [type |-> "info",    category |-> "documents", priority |-> "high"],
      [type |-> "info",    category |-> "documents", priority |-> "low"],
      [type |-> "warning", category |-> "documents", priority |-> "low"],
      [type |-> "info",    category |-> "billing",   priority |-> "low"] }

(* crypto.randomUUID(): an id that no stored notification has.  The Map    *)
(* keeps insertion order and ids grow with it.                             *)
NextId(store) == IF store = <<>> THEN 1 ELSE Last(store).id + 1

(* The Notification object createNotification builds; category and         *)
(* groupedIds are the fields of its metadata.                              *)
NewNotification(id, type, title, priority, category, groupedIds, t) ==
    [id |-> id, type |-> type, title |-> title, priority |-> priority,
     timestamp |-> t, category |-> category, groupedIds |-> groupedIds,
     status |-> "unread"]

(* this.notifications.get(id) *)
GetNotification(store, id) ==
    store[CHOOSE i \in 1..Len(store) : store[i].id = id]

(* findSimilarNotifications: the ids of the stored notifications, of any   *)
(* status, other than this one, with its type and category, younger than   *)
(* the threshold at time t.                                                *)
findSimilarNotifications(notification, store, t) ==
    { store[i].id : i \in
        { j \in 1..Len(store) :
            /\ store[j].id # notification.id
            /\ store[j].type = notification.type
            /\ store[j].category = notification.category
            /\ t - store[j].timestamp < SimilarThreshold } }

(* cleanupOldNotifications: delete what is older than seven days *)
cleanupOldNotifications(store, t) ==
    SelectSeq(store, LAMBDA n : ~(t - n.timestamp > CleanupThreshold))

(* n.status = 'archived' on the stored objects with the given ids *)
ArchiveAll(store, ids) ==
    [i \in 1..Len(store) |->
        IF store[i].id \in ids
        THEN [store[i] EXCEPT !.status = "archived"]
        ELSE store[i]]

(* What runs once a nested createNotification has returned, in each        *)
(* suspended call from the innermost outwards: groupNotifications archives *)
(* the similar notifications and the triggering one (lines 122-125), then  *)
(* processNotification cleans up and createNotification returns.           *)
RECURSIVE ResumeCallers(_, _, _)
ResumeCallers(store, frames, t) ==
    IF frames = <<>> THEN store
    ELSE LET frame == Last(frames)
             archived == ArchiveAll(store, frame.similar \cup {frame.id})
         IN  ResumeCallers(cleanupOldNotifications(archived, t),
                           SubSeq(frames, 1, Len(frames) - 1), t)

(* createNotification called from outside: the notification is stored      *)
(* (line 58) and processNotification is entered.                           *)
CreateNotification(input) ==
    /\ callStack = <<>>
    /\ Len(notifications) < MaxNotifications
    /\ LET id == NextId(notifications)
       IN  /\ notifications' =
                 Append(notifications,
                        NewNotification(id, input.type, "Update",
                                        input.priority, input.category, {},
                                        notifyClock))
           /\ callStack' = <<[id |-> id, similar |-> {}]>>
    /\ createResult' = "pending"
    /\ UNCHANGED <<notifyClock, coordinatorVars, urgencyCall, waitCall,
                   workflowVars>>

(* processNotification of the innermost call.  sendImmediateAlert only     *)
(* logs.  With three or more similar notifications groupNotifications      *)
(* calls createNotification (lines 110-119), which stores the grouped      *)
(* notification with the type, priority and category of the triggering    *)
(* one and enters processNotification for it; with fewer, the call cleans  *)
(* up and returns, and every caller suspended on it resumes.               *)
ProcessNotification ==
    /\ callStack # <<>>
    /\ LET frame == Last(callStack)
           notification == GetNotification(notifications, frame.id)
           similarNotifications ==
               findSimilarNotifications(notification, notifications,
                                        notifyClock)
       IN  IF Cardinality(similarNotifications) >= 3
           THEN /\ Len(notifications) < MaxNotifications
                /\ LET id == NextId(notifications)
                   IN  /\ notifications' =
                             Append(notifications,
                                    NewNotification(
                                        id, notification.type,
                                        "Multiple Similar Updates",
                                        notification.priority,
                                        notification.category,
                                        {notification.id}
                                            \cup similarNotifications,
                                        notifyClock))
                       /\ callStack' =
                             Append([callStack EXCEPT ![Len(callStack)] =
                                        [frame EXCEPT
                                            !.similar = similarNotifications]],
                                    [id |-> id, similar |-> {}])
                /\ UNCHANGED createResult
           ELSE /\ notifications' =
                      ResumeCallers(
                          cleanupOldNotifications(notifications, notifyClock),
                          SubSeq(callStack, 1, Len(callStack) - 1),
                          notifyClock)
                /\ callStack' = <<>>
                /\ createResult' = "fulfilled"
    /\ UNCHANGED <<notifyClock, coordinatorVars, urgencyCall, waitCall,
                   workflowVars>>

(* The nesting has used up the call stack.  A notification of priority     *)
(* other than 'high' reaches groupNotifications without an await (line 65  *)
(* is skipped), so the nested calls are synchronous: the RangeError        *)
(* rejects the innermost promise and each caller's await rethrows it.      *)
(* With priority 'high' every level awaits once and the stack does not     *)
(* grow: that nesting goes on until the heap is used up, and no call       *)
(* settles.                                                                *)
CallStackExceeded ==
    /\ callStack # <<>>
    /\ Len(notifications) = MaxNotifications
    /\ LET notification == GetNotification(notifications, Last(callStack).id)
       IN  /\ notification.priority # "high"
           /\ Cardinality(findSimilarNotifications(notification, notifications,
                                                   notifyClock)) >= 3
    /\ callStack' = <<>>
    /\ createResult' = "rejected"
    /\ UNCHANGED <<notifications, notifyClock, coordinatorVars, urgencyCall,
                   waitCall, workflowVars>>

(* Time passes between calls *)
NotifyTick ==
    /\ callStack = <<>>
    /\ notifyClock < MaxNotifyClock
    /\ notifyClock' = notifyClock + 1
    /\ UNCHANGED <<notifications, callStack, createResult, coordinatorVars,
                   urgencyCall, waitCall, workflowVars>>

NotificationInit ==
    /\ CoordinatorIdle
    /\ urgencyCall = NoUrgencyCall
    /\ waitCall = NoWaitCall
    /\ NotificationIdle
    /\ WorkflowIdle

NotificationNext ==
    \/ \E input \in NotificationInputs : CreateNotification(input)
    \/ ProcessNotification
    \/ CallStackExceeded
    \/ NotifyTick

NotificationSpec == NotificationInit /\ [][NotificationNext]_vars

(***************************************************************************)
(* WorkflowAutomation (src/lib/workflowAutomation.ts).                     *)
(*                                                                         *)
(* processDocument awaits inside its loop, but between the awaits it reads *)
(* only its own execution object and the rule object it picked before the  *)
(* loop, and it writes the executions map once, at the end: it is one      *)
(* step.  new Date() reads the variable workflowClock.                     *)
(***************************************************************************)

MaxRules == 3
MaxReturned == 2
MaxWorkflowClock == 1

(* CustomerDocument: id, ai_urgency_score and status are what is read *)
WorkflowDocuments ==
    [id : {"d1", "d2"}, ai_urgency_score : {50, 90},
     status : {"pending", "overdue"}]

(* Customer: communication_preferences is optional *)
WorkflowCustomers ==
    [id : {"c1"}, communication_preferences : {None, Some("email")}]

(* Rules a caller adds with addRule.  The condition "prefers-email" is     *)
(* customer.communication_preferences.preferredChannel === 'email'.         *)
CustomRules ==
    { [id |-> "vip-review", condition |-> "urgent",
       actions |-> <<"tag">>, priority |-> 0, isActive |-> TRUE],
      [id |-> "email-nudge", condition |-> "prefers-email",
       actions |-> <<"followup", "tag">>, priority |-> 1, isActive |-> TRUE] }

(* rule.condition(doc, customer): "true", "false", or "throws" for a       *)
(* TypeError on a property of undefined.                                   *)
EvalCondition(rule, doc, customer) ==
    CASE rule.condition = "urgent" ->
            IF doc.ai_urgency_score > 80 THEN "true" ELSE "false"
      [] rule.condition = "overdue" ->
            IF doc.status = "overdue" THEN "true" ELSE "false"
      [] rule.condition = "prefers-email" ->
            IF customer.communication_preferences = None THEN "throws"
            ELSE IF customer.communication_preferences[1] = "email"
                 THEN "true" ELSE "false"

(* Whether the filter of line 103 throws: an active rule's condition does *)
FilterThrows(ruleList, doc, customer) ==
    \E i \in 1..Len(ruleList) :
        /\ ruleList[i].isActive
        /\ EvalCondition(ruleList[i], doc, customer) = "throws"

(* this.rules.filter(rule => rule.isActive && rule.condition(doc, customer)) *)
(*           .sort((a, b) => a.priority - b.priority)                       *)
matchingRules(ruleList, doc, customer) ==
    LET kept == SelectSeq(ruleList,
                          LAMBDA rule :
                              /\ rule.isActive
                              /\ EvalCondition(rule, doc, customer) = "true")
    IN  SortByKey([i \in 1..Len(kept) |->
                      [key |-> kept[i].priority, item |-> kept[i]]])

(* What a follow-up action may do: createFollowUp resolves, or             *)
(* smartMessaging.generateSmartMessage rejects.                            *)
FollowUpOutcomes == {"completed", "failed"}

(* The status an action ends with: executeAction resolves for             *)
(* 'notification', 'escalation' and 'tag', and throws for a type it does   *)
(* not know.                                                               *)
executeAction(type, followUp) ==
    CASE type = "followup" -> followUp
      [] type \in {"notification", "escalation", "tag"} -> "completed"
      [] OTHER -> "failed"

(* getExecutions(documentId): the stored executions of the document,       *)
(* latest start first.                                                     *)
getExecutions(documentId) ==
    LET kept == SelectSeq(executions, LAMBDA e : e.documentId = documentId)
        sorted == SortByKey([i \in 1..Len(kept) |->
                                [key |-> 0 - kept[i].startedAt,
                                 item |-> kept[i]]])
    IN  [i \in 1..Len(sorted) |-> sorted[i].item]

(* processDocument(doc, customer) *)
ProcessDocument(doc, customer, followUp) ==
    /\ Len(returned) < MaxReturned
    /\ LET execution == [id |-> Len(returned) + 1, ruleId |-> "",
                         documentId |-> doc.id, customerId |-> customer.id,
                         status |-> "pending", actions |-> <<>>,
                         startedAt |-> workflowClock]
       IN  IF FilterThrows(workflowRules, doc, customer)
           THEN /\ returned' =
                      Append(returned, [execution EXCEPT !.status = "failed"])
                /\ UNCHANGED executions
           ELSE LET matching == matchingRules(workflowRules, doc, customer)
                IN  IF Len(matching) = 0
                    THEN /\ returned' =
                               Append(returned,
                                      [execution EXCEPT !.status = "completed"])
                         /\ UNCHANGED executions
                    ELSE LET rule == matching[1].item
                             actions ==
                                 [i \in 1..Len(rule.actions) |->
                                     [type |-> rule.actions[i],
                                      status |-> executeAction(rule.actions[i],
                                                               followUp)]]
                             done ==
                                 [execution EXCEPT
                                     !.ruleId = rule.id,
                                     !.actions = actions,
                                     !.status =
                                         IF \E i \in 1..Len(actions) :
                                               actions[i].status = "failed"
                                         THEN "failed" ELSE "completed"]
                         IN  /\ executions' = Append(executions, done)
                             /\ returned' = Append(returned, done)
    /\ UNCHANGED <<workflowRules, workflowClock, coordinatorVars, urgencyCall,
                   waitCall, notificationVars>>

(* addRule(rule) *)
AddRule(rule) ==
    /\ Len(workflowRules) < MaxRules
    /\ workflowRules' = Append(workflowRules, rule)
    /\ UNCHANGED <<executions, returned, workflowClock, coordinatorVars,
                   urgencyCall, waitCall, notificationVars>>

(* removeRule(ruleId) *)
RemoveRule(ruleId) ==
    /\ \E i \in 1..Len(workflowRules) : workflowRules[i].id = ruleId
    /\ workflowRules' = SelectSeq(workflowRules, LAMBDA r : r.id # ruleId)
    /\ UNCHANGED <<executions, returned, workflowClock, coordinatorVars,
                   urgencyCall, waitCall, notificationVars>>

(* updateRule(ruleId, { isActive }) *)
UpdateRule(ruleId, isActive) ==
    /\ \E i \in 1..Len(workflowRules) :
          workflowRules[i].id = ruleId /\ workflowRules[i].isActive # isActive
    /\ workflowRules' =
          [i \in 1..Len(workflowRules) |->
              IF workflowRules[i].id = ruleId
              THEN [workflowRules[i] EXCEPT !.isActive = isActive]
              ELSE workflowRules[i]]
    /\ UNCHANGED <<executions, returned, workflowClock, coordinatorVars,
                   urgencyCall, waitCall, notificationVars>>

(* Time passes *)
WorkflowTick ==
    /\ workflowClock < MaxWorkflowClock
    /\ workflowClock' = workflowClock + 1
    /\ UNCHANGED <<workflowRules, executions, returned, coordinatorVars,
                   urgencyCall, waitCall, notificationVars>>

RuleIds == {"urgent-document-reminder", "overdue-document-escalation",
            "vip-review", "email-nudge"}

WorkflowInit ==
    /\ CoordinatorIdle
    /\ urgencyCall = NoUrgencyCall
    /\ waitCall = NoWaitCall
    /\ NotificationIdle
    /\ WorkflowIdle

WorkflowNext ==
    \/ \E doc \in WorkflowDocuments, customer \in WorkflowCustomers,
          followUp \in FollowUpOutcomes :
          ProcessDocument(doc, customer, followUp)
    \/ \E rule \in CustomRules : AddRule(rule)
    \/ \E ruleId \in RuleIds : RemoveRule(ruleId)
    \/ \E ruleId \in RuleIds, isActive \in BOOLEAN : UpdateRule(ruleId, isActive)
    \/ WorkflowTick

WorkflowSpec == WorkflowInit /\ [][WorkflowNext]_vars

----------------------------------------------------------------------------
(* Properties *)

(* The invocations that got as far as executeChannelStrategy *)
ReachedExecute(p) == inv[p].context # None

(* The indices of the rules whose condition is true of ctx at time t *)
TrueRules(ctx, t) ==
    { i \in 1..Len(EscalationRules) : RuleCondition(i, ctx, t) }

(* The rule of smallest priority number among a non-empty set of indices *)
SmallestPriority(rules) ==
    CHOOSE i \in rules :
        \A j \in rules : EscalationRules[i].priority <= EscalationRules[j].priority

(* An invocation p takes its first step: the run of InitiateFlow *)
Starts(p) == inv[p].pc = "idle" /\ inv'[p].pc # "idle"

(* An invocation p takes its second step: the run of ExecuteChannelStrategy *)
Evaluates(p) == inv[p].pc = "building" /\ inv'[p].pc # "building"

(* C1: an invocation that finds the customer's open-escalation set non-empty *)
(* in executeChannelStrategy returns status 'escalated' with the open       *)
(* escalation ids, and neither then nor later calls sendMessage.            *)
C1_OpenEscalationNeverSends ==
    [][/\ \A p \in Calls :
             ( /\ Evaluates(p)
               /\ escalationHistory[inv'[p].customer] # {} )
             => /\ inv'[p].pc = "fulfilled"
                /\ ~inv'[p].sent
                /\ gatewayCalls' = gatewayCalls
                /\ result'[p] = [status |-> "escalated",
                                 activeEscalations |->
                                     escalationHistory[inv'[p].customer]]
       /\ \A p \in Calls :
             inv[p].activeEscalations # {}
             => inv'[p] = inv[p] /\ result'[p] = result[p] /\ ~inv[p].sent]_vars

(* C1 witness: an invocation was answered 'escalated' although no rule was  *)
(* true of its context, so only the open escalation kept it from sending.   *)
C1_Witness ==
    \E p \in Calls :
        /\ inv[p].pc = "fulfilled"
        /\ inv[p].activeEscalations # {}
        /\ inv[p].fired = None
        /\ TrueRules(inv[p].context[1], now) = {}
        /\ result[p].status = "escalated"

(* C2: when rules are true of the context of an invocation that evaluates   *)
(* them, the one of smallest priority number is dispatched, and exactly one *)
(* escalation id, carrying that rule's action, is recorded.                 *)
C2_FirstMatchByPriorityFires ==
    [][\A p \in Calls :
          ( /\ Evaluates(p)
            /\ escalationHistory[inv'[p].customer] = {}
            /\ TrueRules(inv'[p].context[1], now) # {} )
          => LET c == inv'[p].customer
                 rule == EscalationRules[
                             SmallestPriority(TrueRules(inv'[p].context[1], now))]
             IN  /\ inv'[p].fired = Some(rule.action)
                 /\ inv'[p].pc = "fulfilled"
                 /\ result'[p].status = EscalationStatus(rule.action)
                 /\ escalationHistory'[c] = {<<rule.action, now>>}]_vars

(* C2 witness: a rule fired in an invocation in which at least two rules    *)
(* were true, and it was not the last of them in priority order.            *)
C2_Witness ==
    \E p \in Calls :
        /\ inv[p].escalationId # None
        /\ Cardinality(TrueRules(inv[p].context[1], inv[p].escalationId[1][2])) >= 2
        /\ inv[p].fired = Some("urgent_escalation")

(* C3: every stored effectiveness value lies in [0,1]. *)
C3_EffectivenessInUnitInterval ==
    \A c \in Customers :
        \A ch \in DOMAIN channelEffectiveness[c] :
            channelEffectiveness[c][ch] >= 0 /\ channelEffectiveness[c][ch] <= 20

(* C3 witness: both clamps have acted: a success on a channel stored at 1   *)
(* left it at 1, and a failure on a channel stored at 0.05 left it at 0.    *)
C3_Witness ==
    /\ \E p \in Calls :
          /\ inv[p].response # None
          /\ inv[p].response[1].success
          /\ inv[p].context[1].channelEffectiveness[inv[p].channel[1].type] = 20
          /\ channelEffectiveness[inv[p].customer][inv[p].channel[1].type] = 20
    /\ \E p \in Calls :
          /\ inv[p].response # None
          /\ ~inv[p].response[1].success
          /\ inv[p].context[1].channelEffectiveness[inv[p].channel[1].type] = 1
          /\ channelEffectiveness[inv[p].customer][inv[p].channel[1].type] = 0

C5_UnknownFlowRejected ==
    [][\A p \in Calls :
          (Starts(p) /\ inv'[p].flowType[1] \notin FlowCatalog)
          => /\ inv'[p].pc = "rejected"
             /\ "error" \in DOMAIN result'[p]
             /\ ~inv'[p].sent
             /\ UNCHANGED <<responseHistory, channelEffectiveness,
                            escalationHistory, gatewayCalls>>]_vars

(* C5 witness: a call with an unknown flow type was made and rejected while *)
(* the customer's stores would have let a message through.                  *)
C5_Witness ==
    \E p \in Calls :
        /\ inv[p].pc = "rejected"
        /\ inv[p].flowType = Some("express")
        /\ result[p] = [error |-> "flow_not_found"]
        /\ seeded[inv[p].customer]
        /\ escalationHistory[inv[p].customer] = {}

(* The action tags the switch of handleEscalation names *)
KnownEscalationActions ==
    {"escalate_to_manager", "human_intervention", "urgent_escalation",
     "switch_channel"}

(* C6: when the rule that fires carries an action tag the switch does not   *)
(* name, the call is rejected and no escalation id is recorded.             *)
C6_UnknownActionRejected ==
    \A p \in Calls :
        (inv[p].fired # None /\ inv[p].fired[1] \notin KnownEscalationActions)
        => /\ inv[p].pc = "rejected"
           /\ inv[p].escalationId[1] \notin escalationHistory[inv[p].customer]

ExpectedNextChannel(i) ==
    IF Channels[i].fallbackChannel # None
    THEN CHOOSE ch \in { Channels[j] : j \in 1..Len(Channels) } :
             ch.type = Channels[i].fallbackChannel[1]
    ELSE IF i = Len(Channels) THEN Channels[1] ELSE Channels[i + 1]

(* C9: after a failed attempt the next channel is the failed channel's      *)
(* configured fallback when it has one, else its successor in catalog       *)
(* order, the last entry wrapping to the first: for every channel of the    *)
(* catalog, and in every follow-up an invocation has computed.              *)
C9_NextChannelFallbackElseSuccessor ==
    /\ \A i \in 1..Len(Channels) :
          determineNextChannel(Channels[i]) = ExpectedNextChannel(i)
    /\ \A p \in Calls :
          inv[p].nextChannel # None
          => inv[p].nextChannel[1]
                 = ExpectedNextChannel(FindIndex(inv[p].channel[1].type))

(* C9 witness: one failed attempt on whatsapp went on to its fallback sms   *)
(* (not to phone), and one on portal, the last entry, wrapped to email.     *)
C9_Witness ==
    /\ \E p \in Calls :
          /\ inv[p].followUp # None
          /\ inv[p].channel[1].type = "whatsapp"
          /\ inv[p].followUp[1].channel.type = "sms"
    /\ \E p \in Calls :
          /\ inv[p].followUp # None
          /\ inv[p].channel[1].type = "portal"
          /\ inv[p].followUp[1].channel.type = "email"

(* C10: the channel selectOptimalChannel returns has a maximal total score  *)
(* (base score plus effectiveness bonus) among the catalog channels, and    *)
(* every channel listed before it scores strictly less.                     *)
C10_SelectsFirstMaximalScore ==
    [][\A p \in Calls :
          Evaluates(p)
          => LET ctx == inv'[p].context[1]
                 history == responseHistory[inv'[p].customer]
                 score(i) == ChannelTotalScore(Channels[i], ctx, history)
                 k == FindIndex(inv'[p].channel[1].type)
             IN  \A j \in 1..Len(Channels) :
                    /\ score(j) <= score(k)
                    /\ j < k => score(j) < score(k)]_vars

(* C10 witness: an invocation is about to send on email while portal,       *)
(* listed later, has the same maximal score.                                *)
C10_Witness ==
    \E p \in Calls :
        LET ctx == inv[p].context[1]
            history == responseHistory[inv[p].customer]
            score(i) == ChannelTotalScore(Channels[i], ctx, history)
        IN  /\ inv[p].pc = "sending"
            /\ Len(history) = ctx.attempts
            /\ inv[p].channel[1].type = "email"
            /\ score(FindIndex("email")) = score(FindIndex("portal"))
            /\ \A j \in 1..Len(Channels) : score(j) <= score(FindIndex("email"))

Reports(p) == inv[p].pc = "sending" /\ inv'[p].pc # "sending"

(* C12: a customer's history changes only by the record of a finished       *)
(* attempt being put after the records already there, which stay as they    *)
(* were and in their order; so the history read back is the records         *)
(* appended, oldest first.                                                  *)
C12_HistoryAppendOnly ==
    [][\A c \in Customers :
          IF \E p \in Calls : Reports(p) /\ inv[p].customer = c
          THEN \E p \in Calls :
                  /\ Reports(p)
                  /\ inv[p].customer = c
                  /\ responseHistory'[c] =
                         Append(responseHistory[c],
                                ResponseMetrics(inv[p].channel[1].type,
                                                inv'[p].response[1],
                                                inv[p].context[1].engagementScore))
          ELSE responseHistory'[c] = responseHistory[c]]_vars

(* C12 witness: two attempts of one customer with different reports have    *)
(* been appended, in the order they finished, after a record that was       *)
(* already there.                                                           *)
C12_Witness ==
    \E c \in Customers :
        LET h == responseHistory[c]
            n == Len(h)
        IN  /\ n >= 3
            /\ \A p \in Calls : inv[p].customer = c /\ inv[p].response # None
            /\ h[n].wasSuccessful # h[n - 1].wasSuccessful
            /\ h[1] = SeedRecord("email", TRUE, 19, 10)
            /\ inv[1].history[1] = SubSeq(h, 1, n - 2)

(* C13: the attempt count in the context the rules of an invocation are     *)
(* evaluated on is the length of the customer's history at that moment,     *)
(* whatever other invocations for the customer are in flight.               *)
C13_AttemptsIsHistoryLength ==
    [][\A p \in Calls :
          Evaluates(p)
          => inv'[p].context[1].attempts = Len(responseHistory[inv[p].customer])]_vars

(* C13 witness: two invocations of one customer overlapped: the second      *)
(* started while the first waited for the gateway, the first's record was   *)
(* appended, and the second's rules were evaluated before that.             *)
C13_Witness ==
    \E p, q \in Calls :
        /\ p < q
        /\ inv[p].customer = inv[q].customer
        /\ inv[p].response # None
        /\ inv[q].context # None
        /\ inv[p].context[1].attempts = inv[q].context[1].attempts
        /\ Len(responseHistory[inv[p].customer]) > inv[q].context[1].attempts

(* An escalation id has been computed for customer c by some invocation *)
EscalationRecorded(c) ==
    \E q \in Calls : inv[q].customer = c /\ inv[q].escalationId # None

(* What C14 says of the invocation p of an escalated customer in one step:  *)
(* it has not settled or has returned 'escalated', and it does not send.    *)
ShortCircuited(p) ==
    /\ \/ result'[p] = Pending
       \/ /\ "status" \in DOMAIN result'[p]
          /\ result'[p].status = "escalated"
    /\ Evaluates(p) => result'[p] # Pending
    /\ ~inv'[p].sent
    /\ gatewayCalls' = gatewayCalls

(* C14 as stated: no escalation id is ever removed, and every call of       *)
(* initiateFlow for a customer made after an id was recorded returns        *)
(* status 'escalated' and sends nothing.                                    *)
C14_EveryLaterCallEscalated ==
    [][/\ \A c \in Customers : escalationHistory[c] \subseteq escalationHistory'[c]
       /\ \A p \in Calls :
             ( \/ Starts(p) /\ EscalationRecorded(inv'[p].customer)
               \/ Evaluates(p) /\ EscalationRecorded(inv[p].customer) )
             => ShortCircuited(p)]_vars

(* C14 amended: no escalation id is ever removed, and every call of         *)
(* initiateFlow with a flow type of the catalog, for a customer made after  *)
(* an id was recorded, returns status 'escalated' and sends nothing; a call *)
(* with an unknown flow type is rejected before the escalations are read.   *)
C14_LaterKnownFlowCallEscalated ==
    [][/\ \A c \in Customers : escalationHistory[c] \subseteq escalationHistory'[c]
       /\ \A p \in Calls :
             ( \/ /\ Starts(p)
                  /\ EscalationRecorded(inv'[p].customer)
                  /\ inv'[p].flowType[1] \in FlowCatalog
               \/ Evaluates(p) /\ EscalationRecorded(inv[p].customer) )
             => ShortCircuited(p)
       /\ \A p \in Calls :
             ( /\ Starts(p)
               /\ EscalationRecorded(inv'[p].customer)
               /\ inv'[p].flowType[1] \notin FlowCatalog )
             => inv'[p].pc = "rejected" /\ ~inv'[p].sent]_vars

(* C14 witness: after an invocation recorded an urgent escalation, a second *)
(* call for the customer, on a context of which no rule is true, was        *)
(* answered 'escalated' with that id and sent nothing.                      *)
C14_Witness ==
    \E p, q \in Calls :
        /\ q < p
        /\ inv[q].customer = inv[p].customer
        /\ inv[q].escalationId # None
        /\ inv[q].fired = Some("urgent_escalation")
        /\ inv[p].history # None
        /\ inv[p].flowType = Some("default")
        /\ inv[p].pc = "fulfilled"
        /\ result[p] = [status |-> "escalated",
                        activeEscalations |-> {inv[q].escalationId[1]}]
        /\ seeded[inv[p].customer]
        /\ TrueRules(inv[p].context[1], now) = {}
        /\ ~inv[p].sent

Acts(p) == inv'[p] # inv[p]

(* C16: a step of an invocation for one customer leaves the history, the    *)
(* effectiveness entries and the escalation set of every other customer as  *)
(* they were.                                                               *)
C16_OtherCustomersUntouched ==
    [][\A p \in Calls :
          Acts(p)
          => \A b \in Customers \ {inv'[p].customer} :
                /\ responseHistory'[b] = responseHistory[b]
                /\ channelEffectiveness'[b] = channelEffectiveness[b]
                /\ escalationHistory'[b] = escalationHistory[b]]_vars

(* C16 witness: while an invocation for one customer waits for the gateway  *)
(* on stores that are as it read them, an invocation for another customer   *)
(* has appended its record and one has recorded an escalation.              *)
C16_Witness ==
    \E p, q \in Calls :
        /\ inv[p].customer # inv[q].customer
        /\ inv[q].pc = "sending"
        /\ responseHistory[inv[q].customer] = inv[q].history[1]
        /\ responseHistory[inv[q].customer] # <<>>
        /\ channelEffectiveness[inv[q].customer]
               = inv[q].context[1].channelEffectiveness
        /\ escalationHistory[inv[q].customer] = {}
        /\ inv[p].response # None
        /\ Len(responseHistory[inv[p].customer]) = inv[p].context[1].attempts + 1

(* C17: for every document whose due date is before the current time, the   *)
(* engine's urgency score is exactly 100, whatever the type and the         *)
(* reminder count.                                                          *)
C17_PastDueScoresHundred ==
    ( /\ urgencyCall.score # None
      /\ urgencyCall.document[1].due_date # None
      /\ urgencyCall.document[1].due_date[1] < urgencyCall.at )
    => urgencyCall.score = Some(100)

(* C17 witness: a document due one hour ago, of a type that adds nothing    *)
(* and with no reminders, was scored 100.                                   *)
C17_Witness ==
    /\ urgencyCall.score = Some(100)
    /\ urgencyCall.document[1].due_date = Some(urgencyCall.at - 1)
    /\ urgencyCall.document[1].type = "Tax"
    /\ urgencyCall.document[1].reminder_count = None

(* C18: the context built for a customer whose history is empty has the     *)
(* engagement score 0.5.                                                    *)
C18_ColdStartEngagement ==
    [][\A p \in Calls :
          (Evaluates(p) /\ responseHistory[inv[p].customer] = <<>>)
          => inv'[p].context[1].engagementScore = 10]_vars

(* C18 witness: an invocation for a customer with an empty history went on  *)
(* to the gateway with the engagement score 0.5 in its context.             *)
C18_Witness ==
    \E p \in Calls :
        /\ inv[p].pc = "sending"
        /\ inv[p].history = Some(<<>>)
        /\ inv[p].context[1].attempts = 0
        /\ inv[p].context[1].engagementScore = 10

(* The last five records of a history *)
Recent(history) == SliceLast(history, 5)

C20_NoScoringWhenEscalated ==
    \A p \in Calls :
        (inv[p].activeEscalations # {} \/ inv[p].fired # None)
        => inv[p].channel = None

(* C21: the step in which a rule fires puts exactly one new id in the       *)
(* customer's escalation set and changes no history, no effectiveness       *)
(* value and no gateway count.                                              *)
C21_EscalationOnlyRecordsId ==
    [][\A p \in Calls :
          (Evaluates(p) /\ inv'[p].fired # None)
          => LET c == inv[p].customer
             IN  /\ inv'[p].escalationId[1] \notin escalationHistory[c]
                 /\ escalationHistory'[c]
                        = escalationHistory[c] \cup {inv'[p].escalationId[1]}
                 /\ \A b \in Customers \ {c} :
                        escalationHistory'[b] = escalationHistory[b]
                 /\ responseHistory' = responseHistory
                 /\ channelEffectiveness' = channelEffectiveness
                 /\ gatewayCalls' = gatewayCalls
                 /\ ~inv'[p].sent]_vars

(* C21 witness: a rule fired for a customer whose history and effectiveness *)
(* map are not empty; they are as the invocation read them, its id is the   *)
(* one id of the customer, and no gateway call was made for the customer.   *)
C21_Witness ==
    \E p \in Calls :
        LET c == inv[p].customer
        IN  /\ inv[p].fired = Some("switch_channel")
            /\ inv[p].history[1] # <<>>
            /\ responseHistory[c] = inv[p].history[1]
            /\ channelEffectiveness[c] = inv[p].context[1].channelEffectiveness
            /\ channelEffectiveness[c] # EmptyMap
            /\ escalationHistory[c] = {inv[p].escalationId[1]}
            /\ gatewayCalls[c] = 0

(* C22: the step in which the gateway's report for an invocation comes back *)
(* appends one record to the customer's history: its channel is the         *)
(* selected channel, its success flag and sentiment are the reported ones,  *)
(* its followUpRequired flag is the negation of the success flag; and the   *)
(* length of a history grows only so, by one per report.                    *)
C22_OneRecordPerSend ==
    [][/\ \A p \in Calls :
             Reports(p)
             => LET c == inv[p].customer
                    record == Last(responseHistory'[c])
                    response == inv'[p].response[1]
                IN  /\ Len(responseHistory'[c]) = Len(responseHistory[c]) + 1
                    /\ record.channel = inv[p].channel[1].type
                    /\ record.wasSuccessful = response.success
                    /\ record.sentiment = response.sentiment
                    /\ record.followUpRequired = ~response.success
                    /\ inv[p].sent
       /\ \A c \in Customers :
             Len(responseHistory'[c]) - Len(responseHistory[c])
                = Cardinality({p \in Calls : Reports(p) /\ inv[p].customer = c})]_vars

(* C22 witness: two sends of one customer have reported, one a success and  *)
(* one a failure whose follow-up could not be composed; the customer's      *)
(* history holds their two records with the flags negated.                  *)
C22_Witness ==
    \E p, q \in Calls :
        LET h == responseHistory[inv[p].customer]
        IN  /\ inv[p].customer = inv[q].customer
            /\ inv[p].response # None /\ inv[p].response[1].success
            /\ inv[q].response # None /\ ~inv[q].response[1].success
            /\ inv[q].pc = "rejected"
            /\ gatewayCalls[inv[p].customer] = 2
            /\ Len(h) = Len(inv[p].history[1]) + 2
            /\ \E i, j \in {Len(h) - 1, Len(h)} :
                  /\ i # j
                  /\ h[i].wasSuccessful /\ ~h[i].followUpRequired
                  /\ ~h[j].wasSuccessful /\ h[j].followUpRequired

C24_WaitTimeBounds ==
    waitCall.time # None
    => LET base == waitCall.channel[1].waitTime
           u == waitCall.context[1].urgencyScore
           e == waitCall.context[1].engagementScore
           oneMinusU == IF 20 - u > 0 THEN 20 - u ELSE 0
           halfOrE == IF e > 10 THEN e ELSE 10
           product == base * oneMinusU * halfOrE
           quarter == base * 100
           time == waitCall.time[1]
       IN  /\ time = (IF product > quarter THEN product ELSE quarter)
           /\ time >= quarter
           /\ (u >= 0 /\ e <= 20) => time <= base * 400

(* C24 witness: for urgency 0.8 and engagement 0.5 on phone the product is  *)
(* a tenth of the base, and the wait time returned is the quarter.          *)
C24_Witness ==
    /\ waitCall.time # None
    /\ waitCall.channel[1].type = "phone"
    /\ waitCall.context[1] = [urgencyScore |-> 16, engagementScore |-> 10]
    /\ waitCall.time[1] = waitCall.channel[1].waitTime * 100

(* C25: a customer whose stores were empty at the start never has the       *)
(* gateway called, its history and its effectiveness map stay empty, and    *)
(* every invocation for it that gets to the rules is answered with an       *)
(* escalation, the first one by a rule firing.                              *)
C25_EmptyStoresNeverSend ==
    \A c \in Customers :
        ~seeded[c]
        => /\ gatewayCalls[c] = 0
           /\ responseHistory[c] = <<>>
           /\ channelEffectiveness[c] = EmptyMap
           /\ \A p \in Calls :
                 (inv[p].customer = c /\ inv[p].context # None)
                 => /\ ~inv[p].sent
                    /\ inv[p].pc = "fulfilled"
                    /\ inv[p].fired # None \/ inv[p].activeEscalations # {}
                    /\ escalationHistory[c] # {}

(* C25 witness: for a customer with empty stores and a document without a   *)
(* due date the first call fired the priority-5 rule and a second call was  *)
(* answered 'escalated'; no gateway call was made.                          *)
C25_Witness ==
    \E p, q \in Calls :
        LET c == inv[p].customer
        IN  /\ p # q
            /\ c \in Customers
            /\ ~seeded[c]
            /\ inv[q].customer = c
            /\ inv[p].fired = Some("try_alternative_channel")
            /\ ~inv[p].document[1].hasDueDate
            /\ TrueRules(inv[p].context[1], now) = {5}
            /\ inv[q].activeEscalations # {}
            /\ gatewayCalls[c] = 0
            /\ responseHistory[c] = <<>>

(* C26: every customer has at most one escalation id, under every           *)
(* interleaving of the invocations.                                         *)
C26_AtMostOneOpenEscalation ==
    \A c \in Customers : Cardinality(escalationHistory[c]) <= 1

(* C26 witness: two invocations for one customer were under way together;   *)
(* the one called second got to the rules first and recorded the id, and    *)
(* the one called first then found it and recorded none.                    *)
C26_Witness ==
    \E p, q \in Calls :
        /\ q < p
        /\ inv[p].customer = inv[q].customer
        /\ inv[p].escalationId # None
        /\ inv[q].pc = "fulfilled"
        /\ inv[q].activeEscalations = {inv[p].escalationId[1]}
        /\ inv[q].escalationId = None
        /\ TrueRules(inv[q].context[1], now) # {}
        /\ escalationHistory[inv[p].customer] = {inv[p].escalationId[1]}

(* Every record of the history has the engagement score 0.5 *)
ScoresAreHalf(history) ==
    \A i \in 1..Len(history) : history[i].engagementScore = 10

(* C27: in every invocation the context has urgency 0.5 and no sentiment    *)
(* field, and engagement 0.5 when the stored scores it averages are 0.5,    *)
(* which every record the coordinator appends keeps so; hence               *)
(* escalate_to_manager and human_intervention never fire, switch_channel    *)
(* does not fire on such a history, and the actions dispatched are          *)
(* urgent_escalation and try_alternative_channel.                           *)
C27_OnlyUrgentAndDefaultFire ==
    /\ \A p \in Calls :
          inv[p].context # None
          => LET ctx == inv[p].context[1]
             IN  /\ ctx.urgencyScore = 10
                 /\ "sentiment" \notin DOMAIN ctx
                 /\ inv[p].fired \notin {Some("escalate_to_manager"),
                                         Some("human_intervention")}
                 /\ ScoresAreHalf(inv[p].history[1])
                    => /\ ctx.engagementScore = 10
                       /\ inv[p].fired \in {None, Some("urgent_escalation"),
                                            Some("try_alternative_channel")}
    /\ \A c \in Customers :
          (\E p \in Calls : /\ inv[p].customer = c
                            /\ inv[p].history # None
                            /\ ScoresAreHalf(inv[p].history[1]))
          => ScoresAreHalf(responseHistory[c])

(* C27 witness: an invocation on a history of two attempts with stored      *)
(* scores 0.5, the last with sentiment -1, fired no rule and went on to     *)
(* the gateway.                                                             *)
C27_Witness ==
    \E p \in Calls :
        /\ inv[p].context # None
        /\ inv[p].context[1].attempts >= 2
        /\ inv[p].context[1].lastResponse[1].sentiment < -10
        /\ inv[p].context[1].lastResponse[1].engagementScore = 10
        /\ ScoresAreHalf(inv[p].history[1])
        /\ inv[p].pc = "sending"

(* The adjustment executeChannelStrategy passes for a report *)
Adjustment(response) == IF response.success THEN 2 ELSE -2

(* The map after one update of channel ch *)
Updated(map, ch, adjustment) ==
    MapSet(map, ch, NewEffectiveness(map, ch, adjustment))

(* Two invocations that selected one channel of one customer on the same   *)
(* snapshot have both reported, and the customer's map is the snapshot      *)
(* with both updates applied, in one of the two orders.                     *)
BothUpdatesApplied ==
    \A p, q \in Calls :
        ( /\ p # q
          /\ inv[p].response # None
          /\ inv[q].response # None
          /\ inv[p].customer = inv[q].customer
          /\ inv[p].context = inv[q].context
          /\ inv[p].channel = inv[q].channel )
        => LET snapshot == inv[p].context[1].channelEffectiveness
               ch == inv[p].channel[1].type
               a == Adjustment(inv[p].response[1])
               b == Adjustment(inv[q].response[1])
           IN  channelEffectiveness[inv[p].customer]
                  \in {Updated(Updated(snapshot, ch, a), ch, b),
                       Updated(Updated(snapshot, ch, b), ch, a)}

(* C28: no effectiveness update is lost.  Each report updates the value     *)
(* stored at that moment and changes no other entry, and no other step      *)
(* changes a map; so when two invocations that selected one channel of one  *)
(* customer on the same snapshot have both reported, both updates are in    *)
(* the stored value.                                                        *)
C28_NoLostEffectivenessUpdate ==
    [][/\ \A c \in Customers :
             IF \E p \in Calls : Reports(p) /\ inv[p].customer = c
             THEN \E p \in Calls :
                     /\ Reports(p)
                     /\ inv[p].customer = c
                     /\ channelEffectiveness'[c] =
                            Updated(channelEffectiveness[c], inv[p].channel[1].type,
                                    Adjustment(inv'[p].response[1]))
             ELSE channelEffectiveness'[c] = channelEffectiveness[c]
       /\ BothUpdatesApplied']_vars

(* C28 witness: two invocations selected email on one snapshot where it had *)
(* 0.4, both were reported successful, and the stored value is 0.6.         *)
C28_Witness ==
    \E p, q \in Calls :
        /\ p # q
        /\ inv[p].response # None /\ inv[p].response[1].success
        /\ inv[q].response # None /\ inv[q].response[1].success
        /\ inv[p].customer = inv[q].customer
        /\ inv[p].context = inv[q].context
        /\ inv[p].channel = inv[q].channel
        /\ inv[p].channel[1].type = "email"
        /\ inv[p].context[1].channelEffectiveness = ("email" :> 8) @@ ("portal" :> 8)
        /\ channelEffectiveness[inv[p].customer]["email"] = 12

(* The positions of the stored grouped notifications *)
GroupedNotifications ==
    { i \in 1..Len(notifications) :
        notifications[i].title = "Multiple Similar Updates" }

(* C29: every createNotification call completes with its notification, and *)
(* when it found three or more similar notifications exactly one grouped   *)
(* notification is created: no call is rejected, and no notification is    *)
(* listed in the groupedIds of more than one grouped notification.         *)
C29_OneGroupedNotificationPerCall ==
    /\ createResult # "rejected"
    /\ \A i \in 1..Len(notifications) :
          Cardinality({ g \in GroupedNotifications :
                          notifications[i].id
                              \in notifications[g].groupedIds }) <= 1

(* The states the nesting ends in: a rejected call, and a call of priority *)
(* 'high' that storage ran out under, with nothing archived.               *)
C29_RejectedReached == createResult = "rejected"

C29_NeverSettlesReached ==
    /\ createResult = "pending"
    /\ Len(notifications) = MaxNotifications
    /\ ~ ENABLED NotificationNext

(* C30: every execution processDocument has returned is in a terminal      *)
(* status, is 'failed' exactly when one of its actions failed, and is      *)
(* listed by getExecutions for its document.                               *)
C30_ReturnedExecutionsListed ==
    \A i \in 1..Len(returned) :
        LET e == returned[i]
            listed == getExecutions(e.documentId)
        IN  /\ e.status \in {"completed", "failed"}
            /\ e.status = "failed"
                  <=> \E k \in 1..Len(e.actions) : e.actions[k].status = "failed"
            /\ \E k \in 1..Len(listed) : listed[k] = e

(* The parts of it that hold on their own: a terminal status always; and   *)
(* for an execution that ran a rule, that rule is an active matching one   *)
(* and every action of it has a terminal status.                           *)
C30_TerminalStatus ==
    \A i \in 1..Len(returned) : returned[i].status \in {"completed", "failed"}

C30_FailedWithoutFailedAction ==
    \E i \in 1..Len(returned) :
        /\ returned[i].status = "failed"
        /\ returned[i].actions = <<>>

C30_AllActionsRunAfterFailure ==
    \E i \in 1..Len(returned) :
        /\ Len(returned[i].actions) = 2
        /\ returned[i].actions[1].status = "failed"
        /\ returned[i].actions[2].status = "completed"

====
